---- MODULE Spec2Model ----
(***************************************************************************)
(* The user repository of express-rest-ts: UserRepositoryPrisma            *)
(* (services/user-service/src/repository/user.repository.ts) over the     *)
(* `users` table (prisma/migrations/.../migration.sql) and the Redis side  *)
(* cache (config/redis.ts).                                                *)
(*                                                                         *)
(* Every repository call is a request running on the Node event loop: the  *)
(* code between two awaits of store I/O is one atomic step, and the steps  *)
(* of different requests interleave freely.  One action below is one such  *)
(* step.  The two SETEX (or DEL) commands of setCacheUser (or              *)
(* invalidateCacheUser) are issued in the same tick on the one shared      *)
(* Redis connection, so they take effect together.  The first cache GET of *)
(* a call is issued synchronously by the call itself, so it belongs to the *)
(* step that starts the call.                                              *)
(*                                                                         *)
(* Cache entries carry their TTL but do not expire within a run.  In Spec   *)
(* and SpecSeq the Redis connection stays up and the table stays           *)
(* reachable; SpecCache adds the connection events of the Redis client and *)
(* payloads that do not parse, SpecStore adds store queries that throw.    *)
(*                                                                         *)
(* UserService (services/user/src/validation/user.validation.ts, from its  *)
(* line 62 on) takes its repository as a constructor argument.             *)
(* SpecService runs its methods over a repository that may answer a call   *)
(* with any row, list or error.                                            *)
(***************************************************************************)
EXTENDS Integers, FiniteSets, Sequences, TLC

\* ---- bounds -------------------------------------------------------------
MaxUsers == 2      \* rows the table ever holds, the seeded one included
MaxClock == 1      \* last value of the wall clock
MaxCalls == 3      \* repository calls made in one run
MaxPage == 3       \* largest page a caller of the service asks for
MaxLimit == 5      \* largest limit a caller of the service asks for
MaxTotal == 12     \* largest total a repository reports to the service

\* ---- program constants --------------------------------------------------
CACHE_PREFIX == "user"
CACHE_TTL == 3600
SALT_ROUNDS == 12

\* ---- value universe -----------------------------------------------------
Procs == {1, 2}                       \* slots of the requests in flight
UuidTable == <<"u1", "u2", "u3", "u4">>
Ids == {UuidTable[i] : i \in 1..MaxUsers}
Emails == {"admin@example.com", "john.doe@example.com"}

Null == [null |-> TRUE]               \* JS null / undefined
Date(t) == [date |-> t]               \* a JS Date object
IsoString(t) == [iso |-> t]           \* its ISO-8601 string

VARIABLES
  db,            \* the users table: id -> row or Null
  cache,         \* Redis: key -> entry or Null
  isConnected,   \* RedisClient.isConnected
  now,           \* wall clock at the latest store write
  nextId,        \* index of the next uuid handed out
  ncalls,        \* repository calls made so far
  calls,         \* per request: the repository call it runs and its position
  pre            \* per request: store and cache when its call started

vars == <<db, cache, isConnected, now, nextId, ncalls, calls, pre>>

\* ---- results ------------------------------------------------------------
Ok(v) == [kind |-> "ok", value |-> v]
ConflictError == [kind |-> "ConflictError"]
NotFoundError == [kind |-> "NotFoundError"]
DatabaseError == [kind |-> "DatabaseError"]

\* ---- Redis client (config/redis.ts) -------------------------------------
isReady == isConnected

redisSet(c, key, value, ttl) ==
  IF ~isReady THEN c ELSE [c EXCEPT ![key] = [value |-> value, ttl |-> ttl]]

redisGet(key) ==
  IF ~isReady THEN Null
  ELSE IF cache[key] = Null THEN Null ELSE cache[key].value

redisDel(c, key) ==
  IF ~isReady THEN c ELSE [c EXCEPT ![key] = Null]

\* ---- JSON ---------------------------------------------------------------
\* JSON.stringify turns every Date into its ISO string; null stays null.
JSONstringify(user) ==
  [json |-> [f \in DOMAIN user |->
     IF f \in {"created_at", "updated_at", "deleted_at"} /\ user[f] # Null
       THEN (IF "date" \in DOMAIN user[f] THEN IsoString(user[f].date) ELSE user[f])
       ELSE user[f]]]

\* What JSON.parse throws on a payload that is not JSON.
SyntaxError == [kind |-> "SyntaxError"]

\* A payload that is not JSON.
Garbage == [text |-> "{\"id\":"]

\* JSON.parse gives back the object; the dates stay strings.
JSONparse(text) == IF "json" \in DOMAIN text THEN text.json ELSE SyntaxError

\* ---- cache helpers of the repository ------------------------------------
getCacheKey(identifier, type) == <<CACHE_PREFIX, type, identifier>>

Keys == {getCacheKey(i, "id") : i \in Ids} \cup {getCacheKey(e, "email") : e \in Emails}

\* A populate that forgets the email key.
setCacheUser_idOnly(c, user) ==
  IF ~isReady THEN c
  ELSE redisSet(c, getCacheKey(user.id, "id"), JSONstringify(user), CACHE_TTL)

setCacheUser(c, user) ==
  IF ~isReady THEN c
  ELSE LET userData == JSONstringify(user)
       IN redisSet(redisSet(c, getCacheKey(user.id, "id"), userData, CACHE_TTL),
                   getCacheKey(user.email, "email"), userData, CACHE_TTL)

\* A cache read without the try/catch: what JSON.parse throws comes out.
getCacheUser_noCatch(identifier, type) ==
  IF ~isReady THEN Null
  ELSE LET cached == redisGet(getCacheKey(identifier, type))
       IN IF cached # Null THEN JSONparse(cached) ELSE Null

getCacheUser(identifier, type) ==
  IF ~isReady THEN Null
  ELSE LET cached == redisGet(getCacheKey(identifier, type))
           parsed == IF cached # Null THEN JSONparse(cached) ELSE Null
       IN IF parsed = SyntaxError THEN Null ELSE parsed

\* An invalidation that forgets the email key.
invalidateCacheUser_idOnly(c, user) ==
  IF ~isReady THEN c ELSE redisDel(c, getCacheKey(user.id, "id"))

invalidateCacheUser(c, user) ==
  IF ~isReady THEN c
  ELSE redisDel(redisDel(c, getCacheKey(user.id, "id")),
                getCacheKey(user.email, "email"))

\* ---- the users table ----------------------------------------------------
Rows(d) == {d[i] : i \in {j \in Ids : d[j] # Null}}

\* A table without the unique index.
EmailTaken_noIndex(d, email, exceptId) == FALSE

\* UNIQUE INDEX users_email_key(email): over every row, deleted or not.
EmailTaken(d, email, exceptId) ==
  \E r \in Rows(d) : r.email = email /\ r.id # exceptId

\* A lookup by id without the deleted_at filter.
findUniqueById_ignoresDeleted(d, id) == d[id]

\* user.findUnique({ where: { id, deleted_at: null } })
findUniqueById(d, id) ==
  IF d[id] # Null /\ d[id].deleted_at = Null THEN d[id] ELSE Null

\* A lookup by email that compares against the id column.
findUniqueByEmail_wrongColumn(d, email) ==
  LET hit == {r \in Rows(d) : r.id = email /\ r.deleted_at = Null}
  IN IF hit = {} THEN Null ELSE CHOOSE r \in hit : TRUE

\* user.findUnique({ where: { email, deleted_at: null } })
findUniqueByEmail(d, email) ==
  LET hit == {r \in Rows(d) : r.email = email /\ r.deleted_at = Null}
  IN IF hit = {} THEN Null ELSE CHOOSE r \in hit : TRUE

hash(password) == [bcrypt |-> password, rounds |-> SALT_ROUNDS]

\* updated_at has no column default and no caller supplies it: the Prisma
\* client stamps it with the current time on every create and update.
updatedAt(t) == Date(t)

\* A table whose is_active column defaults to false.
NewRow_inactive(id, data, t) ==
  [id |-> id, first_name |-> data.first_name, last_name |-> data.last_name,
   email |-> data.email, password |-> data.password, is_active |-> FALSE,
   created_at |-> Date(t), updated_at |-> updatedAt(t), deleted_at |-> Null]

\* The row user.create inserts: id, is_active and created_at take their
\* column defaults.
NewRow(id, data, t) ==
  [id |-> id, first_name |-> data.first_name, last_name |-> data.last_name,
   email |-> data.email, password |-> data.password, is_active |-> TRUE,
   created_at |-> Date(t), updated_at |-> updatedAt(t), deleted_at |-> Null]

\* The row user.update writes: the provided fields merged into the old row.
Merge(row, data, t) ==
  [f \in DOMAIN row |->
     IF f \in DOMAIN data THEN data[f]
     ELSE IF f = "updated_at" THEN updatedAt(t)
     ELSE row[f]]

\* ---- text columns ---------------------------------------------------------
\* The characters of the strings that occur in a run.
Chars(s) ==
  CASE s = "Admin" -> <<"A", "d", "m", "i", "n">>
    [] s = "User" -> <<"U", "s", "e", "r">>
    [] s = "Ann" -> <<"A", "n", "n">>
    [] s = "Lee" -> <<"L", "e", "e">>
    [] s = "admin@example.com" ->
         <<"a", "d", "m", "i", "n", "@", "e", "x", "a", "m", "p", "l", "e", ".", "c", "o", "m">>
    [] s = "john.doe@example.com" ->
         <<"j", "o", "h", "n", ".", "d", "o", "e", "@",
           "e", "x", "a", "m", "p", "l", "e", ".", "c", "o", "m">>
    [] s = "admin" -> <<"a", "d", "m", "i", "n">>
    [] s = "LEE" -> <<"L", "E", "E">>
    [] s = "doe" -> <<"d", "o", "e">>

\* The table's collation is utf8mb4_unicode_ci: a letter weighs the same in
\* either case, and text compares by the weights of its characters.
Lower(ch) ==
  CASE ch = "A" -> "a" [] ch = "E" -> "e" [] ch = "L" -> "l" [] ch = "U" -> "u"
    [] OTHER -> ch

Alphabet ==
  <<".", "@", "a", "c", "d", "e", "h", "i", "j", "l", "m", "n", "o", "p", "r", "s", "u", "x">>

Weight(ch) == CHOOSE i \in 1..Len(Alphabet) : Alphabet[i] = Lower(ch)

CollationKey(s) == [i \in 1..Len(Chars(s)) |-> Weight(Chars(s)[i])]

\* { contains: q }: column LIKE '%q%' under the collation.
contains(text, q) ==
  LET t == CollationKey(text)
      k == CollationKey(q)
  IN \E i \in 0..(Len(t) - Len(k)) : SubSeq(t, i + 1, i + Len(k)) = k

\* a sorts no later than b: lexicographic order of the weights.
KeyLeq(a, b) ==
  \/ \E i \in 1..Len(a) :
       /\ i <= Len(b)
       /\ \A j \in 1..(i - 1) : a[j] = b[j]
       /\ a[i] < b[i]
  \/ /\ Len(a) <= Len(b)
     /\ \A j \in 1..Len(a) : a[j] = b[j]

\* ---- findMany queries -----------------------------------------------------
\* A destructured parameter with its default.
Param(params, name, default) ==
  IF name \in DOMAIN params THEN params[name] ELSE default

\* A skip that starts one page late.
skip_pageLate(page, limit) == page * limit

skip(page, limit) == (page - 1) * limit

\* where: { deleted_at: null, OR: [first_name, last_name, email contain q] };
\* a q that is left out or empty is falsy and adds no condition.
where(row, q) ==
  /\ row.deleted_at = Null
  /\ q # "" => \/ contains(row.first_name, q)
                 \/ contains(row.last_name, q)
                 \/ contains(row.email, q)

\* orderBy: { [sort_by]: sort_order } puts a no later than b.
orderBy(a, b, sort_by, sort_order) ==
  LET leq(x, y) == IF sort_by \in {"created_at", "updated_at"}
                     THEN x[sort_by].date <= y[sort_by].date
                     ELSE KeyLeq(CollationKey(x[sort_by]), CollationKey(y[sort_by]))
  IN IF sort_order = "asc" THEN leq(a, b) ELSE leq(b, a)

\* The orders in which the store may hand out the rows of S: rows with equal
\* sort keys come in any order.
Ordered(S, sort_by, sort_order) ==
  {s \in [1..Cardinality(S) -> S] :
     /\ \A i, j \in 1..Cardinality(S) : i # j => s[i] # s[j]
     /\ \A i, j \in 1..Cardinality(S) : i < j => orderBy(s[i], s[j], sort_by, sort_order)}

Min(a, b) == IF a <= b THEN a ELSE b

\* user.findMany({ where, orderBy, skip, take }): the answers it may give.
userFindMany(d, q, sort_by, sort_order, skipped, take) ==
  {SubSeq(s, skipped + 1, Min(skipped + take, Len(s))) :
     s \in Ordered({r \in Rows(d) : where(r, q)}, sort_by, sort_order)}

\* user.count({ where })
userCount(d, q) == Cardinality({r \in Rows(d) : where(r, q)})

\* ---- inputs -------------------------------------------------------------
CreateInputs ==
  {[first_name |-> "Ann", last_name |-> "Lee", email |-> e, password |-> "pw"] : e \in Emails}

UpdateInputs ==
  {[email |-> e] : e \in Emails} \cup {[is_active |-> b] : b \in BOOLEAN}

\* What the callers of findMany pass: any of the parameters may be left out.
FindManyInputs ==
  {[f \in fs |-> CASE f = "page" -> 2
                   [] f = "limit" -> 1
                   [] f = "sort_order" -> "asc"
                   [] f = "sort_by" -> sb
                   [] f = "q" -> qq] :
     fs \in SUBSET {"page", "limit", "sort_order", "sort_by", "q"},
     sb \in {"email", "updated_at"},
     qq \in {"admin", "LEE", "doe"}}

\* ---- a request's call record ---------------------------------------------
Idle ==
  [op |-> "none", pc |-> "idle", id |-> "", data |-> Null, phase |-> 0,
   type |-> "", identifier |-> "", found |-> Null, existingUser |-> Null,
   user |-> Null, rejected |-> FALSE, hit |-> FALSE, fault |-> Null,
   pending |-> {}, users |-> <<>>, total |-> 0, seen |-> {},
   invoked |-> Null, answer |-> Null,
   result |-> Null]

Busy(c) == c.pc # "idle"

Finish(c, res) == [c EXCEPT !.pc = "done", !.result = res]

\* ---- errors and catch blocks ----------------------------------------------
\* What the store throws: a Prisma request error (P2002 unique constraint,
\* P2025 record not found), or the Error of Database.getClient when the
\* client is not connected.
StoreError(code) == [kind |-> "PrismaClientKnownRequestError", code |-> code]
NotConnected == [kind |-> "Error", message |-> "Database not connected"]

\* Catch blocks that rethrow whatever they caught.
catchBlock_rethrows(op, error) == error

\* The catch block of each repository method: the errors it lets through
\* and the DatabaseError it throws in place of every other one.
catchBlock(op, error) ==
  CASE op = "create" ->
         IF error = ConflictError THEN error ELSE DatabaseError
    [] op = "update" ->
         IF error = NotFoundError \/ error = ConflictError THEN error ELSE DatabaseError
    [] op \in {"delete", "softDelete"} ->
         IF error = NotFoundError THEN error ELSE DatabaseError
    [] op \in {"findById", "findByEmail", "findMany"} -> DatabaseError

\* An error thrown in the try block of the call.
Throw(c, error) == Finish(c, catchBlock(c.op, error))

\* A store error thrown by the query of a findById / findByEmail: the
\* lookup's catch block gets it first, then that of the method that
\* awaited the lookup.
LookupThrow(c, error) ==
  LET lookup == IF c.type = "id" THEN "findById" ELSE "findByEmail"
      c1 == [c EXCEPT !.fault = error]
  IN IF c.op = lookup THEN Throw(c1, error)
     ELSE Throw(c1, catchBlock(lookup, error))

\* What a call does with the answer of a findById / findByEmail it awaited.
AfterLookup(c, res) ==
  CASE c.op \in {"findById", "findByEmail"} -> Finish(c, Ok(res))
    [] c.op = "create" ->
         IF res # Null THEN Throw(c, ConflictError)
         ELSE [c EXCEPT !.pc = "insert"]
    [] c.op = "update" /\ c.phase = 1 ->
         IF res = Null THEN Throw(c, NotFoundError)
         ELSE IF "email" \in DOMAIN c.data /\ c.data.email # res.email
           THEN [c EXCEPT !.existingUser = res, !.phase = 2, !.pc = "get",
                          !.type = "email", !.identifier = c.data.email]
           ELSE [c EXCEPT !.existingUser = res, !.pc = "invalidate"]
    [] c.op = "update" /\ c.phase = 2 ->
         IF res # Null THEN Throw(c, ConflictError)
         ELSE [c EXCEPT !.pc = "invalidate"]
    [] c.op \in {"delete", "softDelete"} ->
         IF res = Null THEN Throw(c, NotFoundError)
         ELSE [c EXCEPT !.existingUser = res, !.pc = "invalidate"]

\* A lookup that goes to the store without looking at the cache.
LookupCache_storeFirst(c) == [c EXCEPT !.pc = "find"]

\* The cache half of findById / findByEmail: a hit answers the lookup.  The
\* read is made inside the lookup's try block.
LookupCache(c) ==
  LET cached == getCacheUser(c.identifier, c.type)
  IN IF cached = SyntaxError THEN LookupThrow(c, cached)
     ELSE IF cached # Null THEN AfterLookup([c EXCEPT !.hit = TRUE], cached)
     ELSE [c EXCEPT !.pc = "find"]

\* Requests are anonymous: a new one takes the lowest slot that is free.
Begin(p, c) ==
  /\ ~Busy(calls[p])
  /\ \A q \in Procs : q < p => Busy(calls[q])
  /\ ncalls < MaxCalls
  /\ ncalls' = ncalls + 1
  /\ calls' = [calls EXCEPT ![p] = c]
  /\ pre' = [pre EXCEPT ![p] = [db |-> db, cache |-> cache]]
  /\ UNCHANGED <<db, cache, isConnected, now, nextId>>

\* A call that opens with a findById / findByEmail.
Start(p, c) == Begin(p, LookupCache(c))

\* The clock is read by store writes only, so the time that passes between
\* two writes is folded into the later one: it happens at the time of the
\* earlier one or later.
Times == {t \in now..(now + 1) : t <= MaxClock}

Step(p, c) == calls' = [calls EXCEPT ![p] = c]

\* A step that writes the table: d is the table it leaves.  A findMany in
\* flight has then been running over one more state of the table.
Observe(c, d) ==
  IF c.op = "findMany" /\ c.pc = "list" THEN [c EXCEPT !.seen = @ \cup {d}] ELSE c

StepW(p, c, d) ==
  calls' = [q \in Procs |-> IF q = p THEN c ELSE Observe(calls[q], d)]

\* ---- Init ---------------------------------------------------------------
\* The table outlives the process: it starts empty or holding the row that
\* prisma/seed.ts inserts.
SeedData ==
  [first_name |-> "Admin", last_name |-> "User", email |-> "admin@example.com",
   password |-> hash("admin123")]

SeedTables ==
  {[i \in Ids |-> Null],
   [i \in Ids |-> IF i = UuidTable[1] THEN NewRow(i, SeedData, 0) ELSE Null]}

Init ==
  /\ db \in SeedTables
  /\ cache = [k \in Keys |-> Null]
  /\ isConnected = TRUE
  /\ now = 0
  /\ nextId = IF db[UuidTable[1]] = Null THEN 1 ELSE 2
  /\ ncalls = 0
  /\ calls = [p \in Procs |-> Idle]
  /\ pre = [p \in Procs |-> Null]

\* ---- calls --------------------------------------------------------------
InFlightCreates ==
  Cardinality({q \in Procs : calls[q].op = "create" /\ calls[q].pc \in {"find", "fill", "insert"}})

create(p, data) ==
  /\ nextId + InFlightCreates <= MaxUsers
  /\ Start(p, [Idle EXCEPT !.op = "create", !.data = data, !.phase = 1,
                              !.type = "email", !.identifier = data.email])

findById(p, id) ==
  /\ id \in Ids
  /\ Start(p, [Idle EXCEPT !.op = "findById", !.id = id, !.phase = 1,
                           !.type = "id", !.identifier = id])

findByEmail(p, email) ==
  /\ email \in Emails
  /\ Start(p, [Idle EXCEPT !.op = "findByEmail", !.phase = 1,
                           !.type = "email", !.identifier = email])

update(p, id, data) ==
  /\ id \in Ids
  /\ Start(p, [Idle EXCEPT !.op = "update", !.id = id, !.data = data, !.phase = 1,
                           !.type = "id", !.identifier = id])

delete(p, id) ==
  /\ id \in Ids
  /\ Start(p, [Idle EXCEPT !.op = "delete", !.id = id, !.phase = 1,
                           !.type = "id", !.identifier = id])

softDelete(p, id) ==
  /\ id \in Ids
  /\ Start(p, [Idle EXCEPT !.op = "softDelete", !.id = id, !.phase = 1,
                           !.type = "id", !.identifier = id])

\* ---- findById / findByEmail after a cache miss ---------------------------
findById_query(p) ==
  /\ calls[p].pc = "find" /\ calls[p].type = "id"
  /\ LET user == findUniqueById(db, calls[p].identifier)
     IN Step(p, IF user # Null THEN [calls[p] EXCEPT !.pc = "fill", !.found = user]
                ELSE AfterLookup(calls[p], Null))
  /\ UNCHANGED <<db, cache, isConnected, now, nextId, ncalls, pre>>

findById_cache(p) ==
  /\ calls[p].pc = "fill" /\ calls[p].type = "id"
  /\ cache' = setCacheUser(cache, calls[p].found)
  /\ Step(p, AfterLookup([calls[p] EXCEPT !.found = Null], calls[p].found))
  /\ UNCHANGED <<db, isConnected, now, nextId, ncalls, pre>>

findByEmail_query(p) ==
  /\ calls[p].pc = "find" /\ calls[p].type = "email"
  /\ LET user == findUniqueByEmail(db, calls[p].identifier)
     IN Step(p, IF user # Null THEN [calls[p] EXCEPT !.pc = "fill", !.found = user]
                ELSE AfterLookup(calls[p], Null))
  /\ UNCHANGED <<db, cache, isConnected, now, nextId, ncalls, pre>>

findByEmail_cache(p) ==
  /\ calls[p].pc = "fill" /\ calls[p].type = "email"
  /\ cache' = setCacheUser(cache, calls[p].found)
  /\ Step(p, AfterLookup([calls[p] EXCEPT !.found = Null], calls[p].found))
  /\ UNCHANGED <<db, isConnected, now, nextId, ncalls, pre>>

\* ---- create -------------------------------------------------------------
create_insert(p) ==
  /\ calls[p].pc = "insert"
  /\ LET data == [calls[p].data EXCEPT !.password = hash(calls[p].data.password)]
         id == UuidTable[nextId]
     IN IF EmailTaken(db, data.email, "")
          THEN \* the unique index rejects the insert; the catch block rewraps
               /\ Step(p, Throw([calls[p] EXCEPT !.rejected = TRUE,
                                                 !.fault = StoreError("P2002")],
                                StoreError("P2002")))
               /\ UNCHANGED <<db, nextId, now>>
          ELSE \E t \in Times :
               /\ db' = [db EXCEPT ![id] = NewRow(id, data, t)]
               /\ nextId' = nextId + 1
               /\ now' = t
               /\ StepW(p, [calls[p] EXCEPT !.pc = "set", !.user = NewRow(id, data, t)],
                        [db EXCEPT ![id] = NewRow(id, data, t)])
  /\ UNCHANGED <<cache, isConnected, ncalls, pre>>

create_cache(p) ==
  /\ calls[p].pc = "set" /\ calls[p].op = "create"
  /\ cache' = setCacheUser(cache, calls[p].user)
  /\ Step(p, Finish(calls[p], Ok(calls[p].user)))
  /\ UNCHANGED <<db, isConnected, now, nextId, ncalls, pre>>

\* ---- update -------------------------------------------------------------
\* An update that skips the second uniqueness check.
update_findByEmail_skipped(p) ==
  /\ calls[p].pc = "get" /\ calls[p].op = "update"
  /\ Step(p, [calls[p] EXCEPT !.pc = "invalidate"])
  /\ UNCHANGED <<db, cache, isConnected, now, nextId, ncalls, pre>>

update_findByEmail(p) ==
  /\ calls[p].pc = "get" /\ calls[p].op = "update"
  /\ Step(p, LookupCache(calls[p]))
  /\ UNCHANGED <<db, cache, isConnected, now, nextId, ncalls, pre>>

\* An update that does not invalidate before it writes.
update_invalidate_skipped(p) ==
  /\ calls[p].pc = "invalidate" /\ calls[p].op = "update"
  /\ Step(p, [calls[p] EXCEPT !.pc = "write"])
  /\ UNCHANGED <<db, cache, isConnected, now, nextId, ncalls, pre>>

update_invalidate(p) ==
  /\ calls[p].pc = "invalidate" /\ calls[p].op = "update"
  /\ cache' = invalidateCacheUser(cache, calls[p].existingUser)
  /\ Step(p, [calls[p] EXCEPT !.pc = "write"])
  /\ UNCHANGED <<db, isConnected, now, nextId, ncalls, pre>>

update_write(p) ==
  /\ calls[p].pc = "write" /\ calls[p].op = "update"
  /\ LET id == calls[p].id
         data == calls[p].data
     IN IF \/ db[id] = Null
           \/ ("email" \in DOMAIN data /\ EmailTaken(db, data.email, id))
          THEN \* record not found, or the unique index rejects the write
               /\ LET error == StoreError(IF db[id] = Null THEN "P2025" ELSE "P2002")
                  IN Step(p, Throw([calls[p] EXCEPT !.rejected = (db[id] # Null),
                                                    !.fault = error], error))
               /\ UNCHANGED <<db, now>>
          ELSE \E t \in Times :
               /\ db' = [db EXCEPT ![id] = Merge(db[id], data, t)]
               /\ now' = t
               /\ StepW(p, [calls[p] EXCEPT !.pc = "set", !.user = Merge(db[id], data, t)],
                        [db EXCEPT ![id] = Merge(db[id], data, t)])
  /\ UNCHANGED <<cache, isConnected, nextId, ncalls, pre>>

\* An update that leaves the cache empty after its write.
update_cache_skipped(p) ==
  /\ calls[p].pc = "set" /\ calls[p].op = "update"
  /\ Step(p, Finish(calls[p], Ok(calls[p].user)))
  /\ UNCHANGED <<db, cache, isConnected, now, nextId, ncalls, pre>>

update_cache(p) ==
  /\ calls[p].pc = "set" /\ calls[p].op = "update"
  /\ cache' = setCacheUser(cache, calls[p].user)
  /\ Step(p, Finish(calls[p], Ok(calls[p].user)))
  /\ UNCHANGED <<db, isConnected, now, nextId, ncalls, pre>>

\* ---- delete -------------------------------------------------------------
delete_invalidate(p) ==
  /\ calls[p].pc = "invalidate" /\ calls[p].op = "delete"
  /\ cache' = invalidateCacheUser(cache, calls[p].existingUser)
  /\ Step(p, [calls[p] EXCEPT !.pc = "write"])
  /\ UNCHANGED <<db, isConnected, now, nextId, ncalls, pre>>

delete_write(p) ==
  /\ calls[p].pc = "write" /\ calls[p].op = "delete"
  /\ LET id == calls[p].id
     IN IF db[id] = Null
          THEN /\ Step(p, Throw([calls[p] EXCEPT !.fault = StoreError("P2025")],
                                StoreError("P2025")))
               /\ UNCHANGED db
          ELSE /\ db' = [db EXCEPT ![id] = Null]
               /\ StepW(p, Finish(calls[p], Ok(Null)), [db EXCEPT ![id] = Null])
  /\ UNCHANGED <<cache, isConnected, now, nextId, ncalls, pre>>

\* ---- softDelete ---------------------------------------------------------
\* A soft delete that leaves the cache as it is.
softDelete_invalidate_skipped(p) ==
  /\ calls[p].pc = "invalidate" /\ calls[p].op = "softDelete"
  /\ Step(p, [calls[p] EXCEPT !.pc = "write"])
  /\ UNCHANGED <<db, cache, isConnected, now, nextId, ncalls, pre>>

softDelete_invalidate(p) ==
  /\ calls[p].pc = "invalidate" /\ calls[p].op = "softDelete"
  /\ cache' = invalidateCacheUser(cache, calls[p].existingUser)
  /\ Step(p, [calls[p] EXCEPT !.pc = "write"])
  /\ UNCHANGED <<db, isConnected, now, nextId, ncalls, pre>>

\* A soft delete that removes the row.
softDelete_write_removes(p) ==
  /\ calls[p].pc = "write" /\ calls[p].op = "softDelete"
  /\ db' = [db EXCEPT ![calls[p].id] = Null]
  /\ StepW(p, Finish(calls[p], Ok(Null)), [db EXCEPT ![calls[p].id] = Null])
  /\ UNCHANGED <<cache, isConnected, now, nextId, ncalls, pre>>

softDelete_write(p) ==
  /\ calls[p].pc = "write" /\ calls[p].op = "softDelete"
  /\ LET id == calls[p].id
     IN IF db[id] = Null
          THEN /\ Step(p, Throw([calls[p] EXCEPT !.fault = StoreError("P2025")],
                                StoreError("P2025")))
               /\ UNCHANGED <<db, now>>
          ELSE \E t \in Times :
               /\ db' = [db EXCEPT ![id] = Merge(db[id], [deleted_at |-> Date(t)], t)]
               /\ now' = t
               /\ StepW(p, Finish(calls[p], Ok(Null)),
                        [db EXCEPT ![id] = Merge(db[id], [deleted_at |-> Date(t)], t)])
  /\ UNCHANGED <<cache, isConnected, nextId, ncalls, pre>>

\* ---- findMany -----------------------------------------------------------
\* The call issues both queries in the same tick and awaits them together.
findMany(p, params) ==
  /\ params \in FindManyInputs
  /\ Begin(p, [Idle EXCEPT !.op = "findMany", !.data = params, !.pc = "list",
                           !.pending = {"rows", "count"}, !.seen = {db}])

\* Promise.all resolves when both queries have answered.
Settle(c) ==
  IF c.pending = {} THEN Finish(c, Ok([users |-> c.users, total |-> c.total])) ELSE c

\* A page query that also caches the rows it returns.
findMany_rows_cached(p) ==
  /\ calls[p].pc = "list" /\ "rows" \in calls[p].pending
  /\ LET params == calls[p].data
         page == Param(params, "page", 1)
         limit == Param(params, "limit", 10)
     IN \E users \in userFindMany(db, Param(params, "q", ""),
                                  Param(params, "sort_by", "created_at"),
                                  Param(params, "sort_order", "desc"),
                                  skip(page, limit), limit) :
          /\ Step(p, Settle([calls[p] EXCEPT !.users = users, !.pending = @ \ {"rows"}]))
          /\ cache' = IF users = <<>> THEN cache ELSE setCacheUser(cache, users[1])
  /\ UNCHANGED <<db, isConnected, now, nextId, ncalls, pre>>

findMany_rows(p) ==
  /\ calls[p].pc = "list" /\ "rows" \in calls[p].pending
  /\ LET params == calls[p].data
         page == Param(params, "page", 1)
         limit == Param(params, "limit", 10)
     IN \E users \in userFindMany(db, Param(params, "q", ""),
                                  Param(params, "sort_by", "created_at"),
                                  Param(params, "sort_order", "desc"),
                                  skip(page, limit), limit) :
          Step(p, Settle([calls[p] EXCEPT !.users = users, !.pending = @ \ {"rows"}]))
  /\ UNCHANGED <<db, cache, isConnected, now, nextId, ncalls, pre>>

findMany_count(p) ==
  /\ calls[p].pc = "list" /\ "count" \in calls[p].pending
  /\ Step(p, Settle([calls[p] EXCEPT !.total = userCount(db, Param(calls[p].data, "q", "")),
                                     !.pending = @ \ {"count"}]))
  /\ UNCHANGED <<db, cache, isConnected, now, nextId, ncalls, pre>>

\* ---- faults --------------------------------------------------------------
\* The store query a call is waiting for throws: the client is not connected
\* or the connection fails under the query.
store_fault(p) ==
  /\ calls[p].pc \in {"find", "insert", "write", "list"}
  /\ Step(p, IF calls[p].pc = "find" THEN LookupThrow(calls[p], NotConnected)
             ELSE Throw([calls[p] EXCEPT !.fault = NotConnected], NotConnected))
  /\ UNCHANGED <<db, cache, isConnected, now, nextId, ncalls, pre>>

\* The 'error' and 'disconnect' events of the Redis client.
redis_error ==
  /\ isConnected
  /\ isConnected' = FALSE
  /\ UNCHANGED <<db, cache, now, nextId, ncalls, calls, pre>>

\* The 'connect' event: the client's reconnect strategy got through.
redis_connect ==
  /\ ~isConnected
  /\ isConnected' = TRUE
  /\ UNCHANGED <<db, cache, now, nextId, ncalls, calls, pre>>

\* Something other than this repository leaves a payload that is not JSON
\* under one of the keys.  A payload matters when it is read, and a call
\* reads a key before it writes any, so the payload is left between calls.
redis_corrupt(key) ==
  /\ \A q \in Procs : ~Busy(calls[q])
  /\ cache[key] # Null /\ cache[key].value # Garbage
  /\ cache' = [cache EXCEPT ![key] = [value |-> Garbage, ttl |-> cache[key].ttl]]
  /\ UNCHANGED <<db, isConnected, now, nextId, ncalls, calls, pre>>

\* ---- UserService ----------------------------------------------------------
\* const { password, deleted_at, ...userResponse } = user
mapUserToResponse_keepsDeletedAt(user) ==
  [f \in DOMAIN user \ {"password"} |-> user[f]]

mapUserToResponse(user) ==
  [f \in DOMAIN user \ {"password", "deleted_at"} |-> user[f]]

\* A ceiling that rounds down.
MathCeil_floor(n, d) == n \div d

\* Math.ceil(n / d) for n >= 0 and d >= 1.
MathCeil(n, d) == IF n % d = 0 THEN n \div d ELSE (n \div d) + 1

\* What each method makes of the answer of the repository call it awaited.
\* An error the repository threw leaves the method as it came.
createUser_return(answer) ==
  IF answer.kind # "ok" THEN answer ELSE Ok(mapUserToResponse(answer.value))

\* A getUserById that hands the absence on to its caller.
getUserById_returnsNull(answer) ==
  IF answer.kind # "ok" THEN answer
  ELSE IF answer.value = Null THEN Ok(Null)
  ELSE Ok(mapUserToResponse(answer.value))

getUserById_return(answer) ==
  IF answer.kind # "ok" THEN answer
  ELSE IF answer.value = Null THEN NotFoundError
  ELSE Ok(mapUserToResponse(answer.value))

getUserByEmail_return(answer) ==
  IF answer.kind # "ok" THEN answer
  ELSE IF answer.value # Null THEN Ok(mapUserToResponse(answer.value))
  ELSE Ok(Null)

getUsers_return(params, answer) ==
  IF answer.kind # "ok" THEN answer
  ELSE LET page == Param(params, "page", 1)
           limit == Param(params, "limit", 10)
           users == answer.value.users
           total == answer.value.total
           totalPages == MathCeil(total, limit)
           hasNext == page < totalPages
           hasPrev == page > 1
       IN Ok([data |-> [i \in 1..Len(users) |-> mapUserToResponse(users[i])],
              pagination |-> [page |-> page, limit |-> limit, total |-> total,
                              total_pages |-> totalPages,
                              has_next |-> hasNext, has_prev |-> hasPrev]])

updateUser_return(answer) ==
  IF answer.kind # "ok" THEN answer ELSE Ok(mapUserToResponse(answer.value))

deleteUser_return(answer) ==
  IF answer.kind # "ok" THEN answer ELSE Ok(Null)

\* { ...params, q: query }
searchParams(query, params) ==
  [f \in DOMAIN params \cup {"q"} |-> IF f = "q" THEN query ELSE params[f]]

\* ---- the repository the service is given ------------------------------------
\* Rows a repository may hand to the service: a row as the table has it, the
\* same row as the cache has it, and a row with deleted_at set.
RepoUsers ==
  LET row == NewRow(UuidTable[1], SeedData, 0)
  IN {row, JSONparse(JSONstringify(row)), Merge(row, [deleted_at |-> Date(1)], 1)}

RepoLists ==
  {<<>>} \cup {<<u>> : u \in RepoUsers} \cup {<<u, v>> : u, v \in RepoUsers}

\* What a repository may answer to the call made of it.
RepoAnswers(invoked) ==
  CASE invoked.op = "create" -> {Ok(u) : u \in RepoUsers} \cup {ConflictError, DatabaseError}
    [] invoked.op = "update" ->
         {Ok(u) : u \in RepoUsers} \cup {NotFoundError, ConflictError, DatabaseError}
    [] invoked.op \in {"findById", "findByEmail"} ->
         {Ok(u) : u \in RepoUsers \cup {Null}} \cup {DatabaseError}
    [] invoked.op = "findMany" ->
         {Ok([users |-> l, total |-> n]) : l \in RepoLists, n \in 0..MaxTotal}
           \cup {DatabaseError}
    [] invoked.op \in {"delete", "softDelete"} -> {Ok(Null), NotFoundError, DatabaseError}

\* ---- service calls --------------------------------------------------------
GetUsersInputs ==
  {[f \in fs |-> IF f = "page" THEN pg ELSE lm] :
     fs \in SUBSET {"page", "limit"}, pg \in 1..MaxPage, lm \in 1..MaxLimit}

\* The method calls one repository method and awaits it.
Invoke(p, method, args, op, opArgs) ==
  /\ \A q \in Procs : ~Busy(calls[q])
  /\ Begin(p, [Idle EXCEPT !.op = method, !.data = args, !.pc = "await",
                           !.invoked = [op |-> op, args |-> opArgs]])

createUser(p, data) ==
  /\ data \in CreateInputs
  /\ Invoke(p, "createUser", data, "create", data)

getUserById(p, id) ==
  /\ id \in Ids
  /\ Invoke(p, "getUserById", [id |-> id], "findById", [id |-> id])

getUserByEmail(p, email) ==
  /\ email \in Emails
  /\ Invoke(p, "getUserByEmail", [email |-> email], "findByEmail", [email |-> email])

getUsers(p, params) ==
  /\ params \in GetUsersInputs
  /\ Invoke(p, "getUsers", params, "findMany", params)

searchUsers(p, query, params) ==
  /\ params \in GetUsersInputs
  /\ Invoke(p, "searchUsers", searchParams(query, params),
            "findMany", searchParams(query, params))

updateUser(p, id, data) ==
  /\ id \in Ids
  /\ Invoke(p, "updateUser", [id |-> id, data |-> data],
            "update", [id |-> id, data |-> data])

\* A deleteUser that soft-deletes whatever the flag says.
deleteUser_alwaysSoft(p, args) ==
  /\ args.id \in Ids
  /\ Invoke(p, "deleteUser", args, "softDelete", [id |-> args.id])

\* deleteUser(id, soft = true)
deleteUser(p, args) ==
  /\ args.id \in Ids
  /\ Invoke(p, "deleteUser", args,
            IF Param(args, "soft", TRUE) THEN "softDelete" ELSE "delete", [id |-> args.id])

activateUser(p, id) ==
  /\ id \in Ids
  /\ Invoke(p, "activateUser", [id |-> id],
            "update", [id |-> id, data |-> [is_active |-> TRUE]])

deactivateUser(p, id) ==
  /\ id \in Ids
  /\ Invoke(p, "deactivateUser", [id |-> id],
            "update", [id |-> id, data |-> [is_active |-> FALSE]])

\* The awaited repository call settles and the method runs to its end.
Resume(c, answer) ==
  CASE c.op = "createUser" -> createUser_return(answer)
    [] c.op = "getUserById" -> getUserById_return(answer)
    [] c.op = "getUserByEmail" -> getUserByEmail_return(answer)
    [] c.op \in {"getUsers", "searchUsers"} -> getUsers_return(c.data, answer)
    [] c.op \in {"updateUser", "activateUser", "deactivateUser"} -> updateUser_return(answer)
    [] c.op = "deleteUser" -> deleteUser_return(answer)

repository_returns(p) ==
  /\ calls[p].pc = "await"
  /\ \E answer \in RepoAnswers(calls[p].invoked) :
       Step(p, Finish([calls[p] EXCEPT !.answer = answer], Resume(calls[p], answer)))
  /\ UNCHANGED <<db, cache, isConnected, now, nextId, ncalls, pre>>

\* ---- the caller ---------------------------------------------------------
\* The awaiting caller takes the value or the error and the request ends.
respond(p) ==
  /\ calls[p].pc = "done"
  /\ calls' = [calls EXCEPT ![p] = Idle]
  /\ pre' = [pre EXCEPT ![p] = Null]
  /\ UNCHANGED <<db, cache, isConnected, now, nextId, ncalls>>

\* ---- specifications -----------------------------------------------------
StepOf(p) ==
  \/ findById_query(p) \/ findById_cache(p)
  \/ findByEmail_query(p) \/ findByEmail_cache(p)
  \/ create_insert(p) \/ create_cache(p)
  \/ update_findByEmail(p) \/ update_invalidate(p) \/ update_write(p) \/ update_cache(p)
  \/ delete_invalidate(p) \/ delete_write(p)
  \/ softDelete_invalidate(p) \/ softDelete_write(p)
  \/ respond(p)

CallOf(p) ==
  \/ \E data \in CreateInputs : create(p, data)
  \/ \E id \in Ids : findById(p, id)
  \/ \E email \in Emails : findByEmail(p, email)
  \/ \E id \in Ids, data \in UpdateInputs : update(p, id, data)
  \/ \E id \in Ids : delete(p, id)
  \/ \E id \in Ids : softDelete(p, id)

\* Requests overlap freely.
Next == \E p \in Procs : CallOf(p) \/ StepOf(p)

Spec == Init /\ [][Next]_vars

\* No two repository calls overlap.
NoneBusy == \A q \in Procs : ~Busy(calls[q])

NextSeq == \E p \in Procs : (NoneBusy /\ CallOf(p)) \/ StepOf(p)

SpecSeq == Init /\ [][NextSeq]_vars

\* Sequential calls over a cache that comes and goes and may hold garbage.
NextCache ==
  \/ NextSeq
  \/ redis_error
  \/ redis_connect
  \/ \E key \in Keys : redis_corrupt(key)

SpecCache == Init /\ [][NextCache]_vars

\* Sequential calls, findMany among them.
NextList ==
  \E p \in Procs :
    \/ NoneBusy /\ (CallOf(p) \/ \E params \in FindManyInputs : findMany(p, params))
    \/ StepOf(p) \/ findMany_rows(p) \/ findMany_count(p)

SpecList == Init /\ [][NextList]_vars

\* Sequential calls over a store whose queries may throw.
NextStore == NextList \/ \E p \in Procs : store_fault(p)

SpecStore == Init /\ [][NextStore]_vars

\* findMany overlapping with create, delete and softDelete calls; the
\* listings are the unfiltered ones in the default order.
RaceInputs == {params \in FindManyInputs : DOMAIN params \in {{}, {"limit"}, {"page", "limit"}}}

NextRace ==
  \E p \in Procs :
    \/ \E params \in RaceInputs : findMany(p, params)
    \/ \E data \in CreateInputs : create(p, data)
    \/ \E id \in Ids : delete(p, id)
    \/ \E id \in Ids : softDelete(p, id)
    \/ findMany_rows(p) \/ findMany_count(p)
    \/ findById_query(p) \/ findById_cache(p)
    \/ findByEmail_query(p) \/ findByEmail_cache(p)
    \/ create_insert(p) \/ create_cache(p)
    \/ delete_invalidate(p) \/ delete_write(p)
    \/ softDelete_invalidate(p) \/ softDelete_write(p)
    \/ respond(p)

SpecRace == Init /\ [][NextRace]_vars

\* The methods of the service, one after the other, over any repository.
DeleteInputs ==
  {[id |-> i] : i \in Ids} \cup {[id |-> i, soft |-> b] : i \in Ids, b \in BOOLEAN}

NextService ==
  \E p \in Procs :
    \/ \E data \in CreateInputs : createUser(p, data)
    \/ \E id \in Ids : getUserById(p, id)
    \/ \E email \in Emails : getUserByEmail(p, email)
    \/ \E params \in GetUsersInputs : getUsers(p, params)
    \/ \E params \in GetUsersInputs : searchUsers(p, "admin", params)
    \/ \E id \in Ids, data \in UpdateInputs : updateUser(p, id, data)
    \/ \E args \in DeleteInputs : deleteUser(p, args)
    \/ \E id \in Ids : activateUser(p, id)
    \/ \E id \in Ids : deactivateUser(p, id)
    \/ repository_returns(p)
    \/ respond(p)

SpecService == Init /\ [][NextService]_vars

\* ---- what a call sees --------------------------------------------------
Done(p, op) == calls[p].pc = "done" /\ calls[p].op = op

IsRow(d, id) == d[id] # Null
IsLive(d, id) == d[id] # Null /\ d[id].deleted_at = Null
IsSoftDeleted(d, id) == d[id] # Null /\ d[id].deleted_at # Null

RowsWithEmail(d, email) == {r \in Rows(d) : r.email = email}

LiveOwner(d, email) == CHOOSE r \in RowsWithEmail(d, email) : r.deleted_at = Null
HasLiveOwner(d, email) == \E r \in RowsWithEmail(d, email) : r.deleted_at = Null

\* What findById / findByEmail return when they run in this state with no
\* other call in flight.
findById_alone(id) ==
  LET cached == getCacheUser(id, "id")
  IN IF cached # Null THEN cached ELSE findUniqueById(db, id)

findByEmail_alone(email) ==
  LET cached == getCacheUser(email, "email")
  IN IF cached # Null THEN cached ELSE findUniqueByEmail(db, email)

\* Two user values are the same user data: they serialize alike.
SameUser(a, b) == a # Null /\ b # Null /\ JSONstringify(a) = JSONstringify(b)

IdKey(id) == getCacheKey(id, "id")
EmailKey(email) == getCacheKey(email, "email")

\* ---- C1 ----------------------------------------------------------------
\* C1: in every reachable state of the table, whatever the interleaving of
\* the concurrent calls, at most one row with deleted_at = null exists for
\* any email.
C1_OneLiveRowPerEmail ==
  \A i, j \in Ids :
    (IsLive(db, i) /\ IsLive(db, j) /\ db[i].email = db[j].email) => i = j

\* Two overlapping writers went for the same email and the index turned one
\* of them away.
C1_Witness ==
  \E p, q \in Procs :
    /\ p # q
    /\ calls[p].pc = "done" /\ calls[p].rejected
    /\ calls[q].op \in {"create", "update"} /\ calls[q].user # Null
    /\ calls[q].user.email = calls[p].data.email

\* ---- C2 ----------------------------------------------------------------
\* C2: a create whose email was free when it started, and whose insert the
\* unique index rejects because an overlapping create took the email first,
\* fails with ConflictError.
C2_RaceLoserGetsConflict ==
  \A p \in Procs :
    (/\ Done(p, "create")
     /\ calls[p].rejected
     /\ RowsWithEmail(pre[p].db, calls[p].data.email) = {})
    => calls[p].result = ConflictError

\* ---- C3 ----------------------------------------------------------------
\* C3: a create for an email that a non-deleted row already holds fails
\* with ConflictError, and the table is as before: one row with that email.
C3_DuplicateCreateConflicts ==
  \A p \in Procs :
    (/\ Done(p, "create")
     /\ \E r \in RowsWithEmail(pre[p].db, calls[p].data.email) : r.deleted_at = Null)
    => /\ calls[p].result = ConflictError
       /\ db = pre[p].db
       /\ Cardinality(RowsWithEmail(db, calls[p].data.email)) = 1

\* The duplicate create was answered by the table and was turned down.
C3_Witness ==
  \E p \in Procs :
    /\ Done(p, "create")
    /\ \E r \in RowsWithEmail(pre[p].db, calls[p].data.email) : r.deleted_at = Null
    /\ pre[p].cache[getCacheKey(calls[p].data.email, "email")] = Null
    /\ calls[p].result = ConflictError

\* ---- C4 ----------------------------------------------------------------
\* C4 as claimed: a create that fails with ConflictError because a
\* non-deleted row owns the email leaves the cache exactly as it was.
C4_ConflictLeavesCacheAlone ==
  \A p \in Procs :
    (/\ Done(p, "create")
     /\ calls[p].result = ConflictError
     /\ HasLiveOwner(pre[p].db, calls[p].data.email))
    => cache = pre[p].cache

\* C4 as amended: such a create writes no row and deletes no key; answered
\* from the cache it leaves the cache as it was, answered from the table it
\* sets both keys of the owning row to that row and changes nothing else.
C4_ConflictCacheEffect ==
  \A p \in Procs :
    (/\ Done(p, "create")
     /\ calls[p].result = ConflictError
     /\ HasLiveOwner(pre[p].db, calls[p].data.email))
    => LET email == calls[p].data.email
           owner == LiveOwner(pre[p].db, email)
           entry == [value |-> JSONstringify(owner), ttl |-> CACHE_TTL]
       IN /\ db = pre[p].db
          /\ IF pre[p].cache[EmailKey(email)] # Null
               THEN cache = pre[p].cache
               ELSE cache = [pre[p].cache EXCEPT ![IdKey(owner.id)] = entry,
                                                 ![EmailKey(email)] = entry]

\* The pre-check missed the cache, found the owner in the table and cached it.
C4_Witness ==
  \E p \in Procs :
    /\ Done(p, "create")
    /\ calls[p].result = ConflictError
    /\ HasLiveOwner(pre[p].db, calls[p].data.email)
    /\ pre[p].cache[EmailKey(calls[p].data.email)] = Null
    /\ cache[EmailKey(calls[p].data.email)] # Null

\* ---- C5 ----------------------------------------------------------------
\* C5: a create whose email no row of the table holds succeeds, and a
\* findByEmail of that email made next returns a row with the id,
\* first_name, last_name, email and is_active = true of the row returned.
C5_CreateThenFindByEmail ==
  \A p \in Procs :
    (/\ Done(p, "create")
     /\ RowsWithEmail(pre[p].db, calls[p].data.email) = {})
    => /\ calls[p].result.kind = "ok"
       /\ LET created == calls[p].result.value
              read == findByEmail_alone(calls[p].data.email)
          IN /\ read # Null
             /\ \A f \in {"id", "first_name", "last_name", "email", "is_active"} :
                  read[f] = created[f]
             /\ created.is_active = TRUE
             /\ created.email = calls[p].data.email
             /\ created.first_name = calls[p].data.first_name
             /\ created.last_name = calls[p].data.last_name

\* A create for a free email has returned its row and the cache holds it.
C5_Witness ==
  \E p \in Procs :
    /\ Done(p, "create")
    /\ RowsWithEmail(pre[p].db, calls[p].data.email) = {}
    /\ calls[p].result.kind = "ok"
    /\ getCacheUser(calls[p].data.email, "email") # Null

\* ---- C6 ----------------------------------------------------------------
\* C6: whatever the interleaving, a findById or findByEmail that starts when
\* a row's deleted_at is already set does not return that row.
C6_NoLookupReturnsSoftDeleted ==
  \A p \in Procs :
    (/\ calls[p].pc = "done"
     /\ calls[p].op \in {"findById", "findByEmail"}
     /\ calls[p].result.value # Null)
    => ~IsSoftDeleted(pre[p].db, calls[p].result.value.id)

\* ---- C7 ----------------------------------------------------------------
\* C7 as claimed: after a softDelete of a non-deleted row, findById returns
\* null, the row is still in the table with deleted_at set and every other
\* field as before, and a softDelete of an already soft-deleted row fails
\* with NotFoundError.
C7_SoftDeleteKeepsOtherFields ==
  \A p \in Procs :
    /\ (Done(p, "softDelete") /\ IsLive(pre[p].db, calls[p].id))
       => LET id == calls[p].id
          IN /\ calls[p].result.kind = "ok"
             /\ findById_alone(id) = Null
             /\ IsSoftDeleted(db, id)
             /\ \A f \in DOMAIN db[id] \ {"deleted_at"} : db[id][f] = pre[p].db[id][f]
    /\ (Done(p, "softDelete") /\ IsSoftDeleted(pre[p].db, calls[p].id))
       => calls[p].result = NotFoundError

\* C7 as amended: the same, with updated_at left out of the fields that stay
\* as they were (the write re-stamps it).
C7_SoftDeleteKeepsRow ==
  \A p \in Procs :
    /\ (Done(p, "softDelete") /\ IsLive(pre[p].db, calls[p].id))
       => LET id == calls[p].id
          IN /\ calls[p].result.kind = "ok"
             /\ findById_alone(id) = Null
             /\ IsSoftDeleted(db, id)
             /\ \A f \in DOMAIN db[id] \ {"deleted_at", "updated_at"} :
                  db[id][f] = pre[p].db[id][f]
    /\ (Done(p, "softDelete") /\ IsSoftDeleted(pre[p].db, calls[p].id))
       => calls[p].result = NotFoundError

\* A cached, non-deleted user has been soft-deleted.
C7_Witness ==
  \E p \in Procs :
    /\ Done(p, "softDelete")
    /\ IsLive(pre[p].db, calls[p].id)
    /\ pre[p].cache[IdKey(calls[p].id)] # Null
    /\ IsSoftDeleted(db, calls[p].id)

\* ---- C8 ----------------------------------------------------------------
\* C8: after a delete of a non-deleted row, findById of its id and
\* findByEmail of its email return null, the table has no row with that id
\* and neither cache key of the user holds an entry.
C8_HardDeleteRemovesEverything ==
  \A p \in Procs :
    (Done(p, "delete") /\ IsLive(pre[p].db, calls[p].id))
    => LET id == calls[p].id
           email == pre[p].db[id].email
       IN /\ calls[p].result.kind = "ok"
          /\ findById_alone(id) = Null
          /\ findByEmail_alone(email) = Null
          /\ db[id] = Null
          /\ cache[IdKey(id)] = Null
          /\ cache[EmailKey(email)] = Null

\* A cached, non-deleted user has been hard-deleted.
C8_Witness ==
  \E p \in Procs :
    /\ Done(p, "delete")
    /\ IsLive(pre[p].db, calls[p].id)
    /\ pre[p].cache[IdKey(calls[p].id)] # Null
    /\ pre[p].cache[EmailKey(pre[p].db[calls[p].id].email)] # Null
    /\ db[calls[p].id] = Null

\* ---- C9 ----------------------------------------------------------------
\* C9: in a sequential execution, after an update that changed a user's
\* email from old to new, findByEmail(old) returns null, findByEmail(new) and
\* findById(id) return the updated row, and no entry is left under the old
\* email key.
C9_EmailChangeLeavesNoStaleKey ==
  \A p \in Procs :
    (/\ Done(p, "update")
     /\ calls[p].result.kind = "ok"
     /\ "email" \in DOMAIN calls[p].data
     /\ IsRow(pre[p].db, calls[p].id)
     /\ calls[p].data.email # pre[p].db[calls[p].id].email)
    => LET id == calls[p].id
           old == pre[p].db[id].email
           new == calls[p].data.email
       IN /\ IsLive(db, id) /\ db[id].email = new
          /\ findByEmail_alone(old) = Null
          /\ SameUser(findByEmail_alone(new), db[id])
          /\ SameUser(findById_alone(id), db[id])
          /\ SameUser(calls[p].result.value, db[id])
          /\ cache[EmailKey(old)] = Null

\* The user was cached under the old email when the update started.
C9_Witness ==
  \E p \in Procs :
    /\ Done(p, "update")
    /\ calls[p].result.kind = "ok"
    /\ "email" \in DOMAIN calls[p].data
    /\ IsRow(pre[p].db, calls[p].id)
    /\ calls[p].data.email # pre[p].db[calls[p].id].email
    /\ pre[p].cache[EmailKey(pre[p].db[calls[p].id].email)] # Null
    /\ pre[p].cache[IdKey(calls[p].id)] # Null

\* ---- C10 ---------------------------------------------------------------
\* C10: an update of an id that has no row, or whose row is soft-deleted,
\* fails with NotFoundError and leaves the table and the cache as they were.
C10_UpdateOfAbsentIsNotFound ==
  \A p \in Procs :
    (Done(p, "update") /\ ~IsLive(pre[p].db, calls[p].id))
    => /\ calls[p].result = NotFoundError
       /\ db = pre[p].db
       /\ cache = pre[p].cache

\* An update of a soft-deleted row was turned down.
C10_Witness ==
  \E p \in Procs :
    /\ Done(p, "update")
    /\ IsSoftDeleted(pre[p].db, calls[p].id)
    /\ calls[p].result = NotFoundError

\* ---- C11 ---------------------------------------------------------------
\* An update of a non-deleted row to an email that differs from its own and
\* that another non-deleted row holds.
EmailConflictCase(p) ==
  /\ Done(p, "update")
  /\ IsLive(pre[p].db, calls[p].id)
  /\ "email" \in DOMAIN calls[p].data
  /\ calls[p].data.email # pre[p].db[calls[p].id].email
  /\ HasLiveOwner(pre[p].db, calls[p].data.email)

\* An update whose patch carries the email the row already has.
SameEmailCase(p) ==
  /\ Done(p, "update")
  /\ IsLive(pre[p].db, calls[p].id)
  /\ "email" \in DOMAIN calls[p].data
  /\ calls[p].data.email = pre[p].db[calls[p].id].email

\* C11 as claimed: such an update fails with ConflictError and leaves the
\* table and the cache entries under the target's id key and current email
\* key as they were; a patch with the row's own email never conflicts.
C11_EmailConflictLeavesTargetKeys ==
  \A p \in Procs :
    /\ EmailConflictCase(p)
       => LET id == calls[p].id
              cur == pre[p].db[id].email
          IN /\ calls[p].result = ConflictError
             /\ db = pre[p].db
             /\ cache[IdKey(id)] = pre[p].cache[IdKey(id)]
             /\ cache[EmailKey(cur)] = pre[p].cache[EmailKey(cur)]
    /\ SameEmailCase(p) => calls[p].result # ConflictError

\* C11 as amended: such an update fails with ConflictError, writes no row and
\* changes or removes no cache entry that existed; the target's two keys stay
\* as they were when the target was cached and otherwise are set to the
\* target row as the table has it; a patch with the row's own email never
\* conflicts.
C11_EmailConflictEffect ==
  \A p \in Procs :
    /\ EmailConflictCase(p)
       => LET id == calls[p].id
              cur == pre[p].db[id].email
              entry == [value |-> JSONstringify(pre[p].db[id]), ttl |-> CACHE_TTL]
          IN /\ calls[p].result = ConflictError
             /\ db = pre[p].db
             /\ \A k \in Keys : pre[p].cache[k] # Null => cache[k] = pre[p].cache[k]
             /\ IF pre[p].cache[IdKey(id)] # Null
                  THEN /\ cache[IdKey(id)] = pre[p].cache[IdKey(id)]
                       /\ cache[EmailKey(cur)] = pre[p].cache[EmailKey(cur)]
                  ELSE /\ cache[IdKey(id)] = entry
                       /\ cache[EmailKey(cur)] = entry
    /\ SameEmailCase(p) => calls[p].result # ConflictError

\* The target was not cached when the conflicting update began, and the
\* lookup of the target has cached it.
C11_Witness ==
  \E p \in Procs :
    /\ EmailConflictCase(p)
    /\ calls[p].result = ConflictError
    /\ pre[p].cache[IdKey(calls[p].id)] = Null
    /\ cache[IdKey(calls[p].id)] # Null

\* A patch with the row's own email went through.
C11_SameEmailWitness ==
  \E p \in Procs : SameEmailCase(p) /\ calls[p].result.kind = "ok"

\* ---- what the Primary Store alone determines -------------------------------
\* Another row than id holds the email, deleted or not.
OtherRowHolds(d, email, id) == \E r \in RowsWithEmail(d, email) : r.id # id

\* The kind of result of call c on table d when no cache takes part.
StoreVerdict(c, d) ==
  CASE c.op \in {"findById", "findByEmail"} -> "ok"
    [] c.op = "create" ->
         IF HasLiveOwner(d, c.data.email) THEN "ConflictError"
         ELSE IF RowsWithEmail(d, c.data.email) # {} THEN "DatabaseError"
         ELSE "ok"
    [] c.op = "update" ->
         IF ~IsLive(d, c.id) THEN "NotFoundError"
         ELSE IF "email" \in DOMAIN c.data /\ c.data.email # d[c.id].email
                 /\ HasLiveOwner(d, c.data.email) THEN "ConflictError"
         ELSE IF "email" \in DOMAIN c.data /\ OtherRowHolds(d, c.data.email, c.id)
           THEN "DatabaseError"
         ELSE "ok"
    [] c.op \in {"delete", "softDelete"} ->
         IF ~IsLive(d, c.id) THEN "NotFoundError" ELSE "ok"

\* The row a lookup gets from table d when no cache takes part.
StoreAnswer(c, d) ==
  IF c.op = "findById"
    THEN (IF IsLive(d, c.identifier) THEN d[c.identifier] ELSE Null)
    ELSE (IF HasLiveOwner(d, c.identifier) THEN LiveOwner(d, c.identifier) ELSE Null)

SameAnswer(a, b) == (a = Null /\ b = Null) \/ SameUser(a, b)

\* Table e is what call c, having returned res, makes of table d when no
\* cache takes part.
StoreEffect(c, res, d, e) ==
  IF res.kind # "ok" \/ c.op \in {"findById", "findByEmail"} THEN e = d
  ELSE CASE c.op = "create" ->
              /\ res.value.email = c.data.email
              /\ d[res.value.id] = Null
              /\ e = [d EXCEPT ![res.value.id] = res.value]
         [] c.op = "update" ->
              /\ \A i \in Ids \ {c.id} : e[i] = d[i]
              /\ SameUser(res.value, e[c.id])
              /\ \A f \in DOMAIN c.data : e[c.id][f] = c.data[f]
              /\ \A f \in DOMAIN d[c.id] \ (DOMAIN c.data \cup {"updated_at"}) :
                   e[c.id][f] = d[c.id][f]
         [] c.op = "delete" -> e = [d EXCEPT ![c.id] = Null]
         [] c.op = "softDelete" ->
              /\ \A i \in Ids \ {c.id} : e[i] = d[i]
              /\ IsSoftDeleted(e, c.id)
              /\ \A f \in DOMAIN d[c.id] \ {"deleted_at", "updated_at"} :
                   e[c.id][f] = d[c.id][f]

\* Call p has returned what the Primary Store alone determines and has left
\* the table as the Primary Store alone would.
AsWithoutCache(p) ==
  /\ calls[p].result.kind = StoreVerdict(calls[p], pre[p].db)
  /\ calls[p].op \in {"findById", "findByEmail"}
       => SameAnswer(calls[p].result.value, StoreAnswer(calls[p], pre[p].db))
  /\ StoreEffect(calls[p], calls[p].result, pre[p].db, db)

\* ---- C12 ---------------------------------------------------------------
\* C12: in sequential executions over a cache that is ready, not ready, or
\* switches between the two between or during the calls, every call returns
\* the value or error, and leaves the table in the state, that the Primary
\* Store alone determines.
C12_CacheAvailabilityChangesNoOutcome ==
  \A p \in Procs : calls[p].pc = "done" => AsWithoutCache(p)

\* ---- C13 ---------------------------------------------------------------
\* C13: a call none of whose lookups was answered from the cache (the
\* cache was not ready, the key was absent or the payload did not parse)
\* returns the value or error, and leaves the table in the state, that the
\* Primary Store alone determines, whether or not its populate and
\* invalidate commands took effect.
C13_CacheFailureFailsNoCall ==
  \A p \in Procs : (calls[p].pc = "done" /\ ~calls[p].hit) => AsWithoutCache(p)

\* A lookup found garbage under its key, took the row from the table and
\* put it back into the cache.
C13_Witness ==
  \E p \in Procs :
    /\ Done(p, "findById")
    /\ pre[p].cache[IdKey(calls[p].id)] # Null
    /\ pre[p].cache[IdKey(calls[p].id)].value = Garbage
    /\ calls[p].result.kind = "ok"
    /\ calls[p].result.value # Null
    /\ cache[IdKey(calls[p].id)] # Null
    /\ cache[IdKey(calls[p].id)].value # Garbage

\* An update ran to its end while the cache was not ready: the entry it
\* could not invalidate is still there.
C13_SkippedInvalidateWitness ==
  \E p \in Procs :
    /\ Done(p, "update")
    /\ ~calls[p].hit
    /\ calls[p].result.kind = "ok"
    /\ pre[p].cache[IdKey(calls[p].id)] # Null
    /\ cache[IdKey(calls[p].id)] = pre[p].cache[IdKey(calls[p].id)]

\* ---- C14 ---------------------------------------------------------------
\* C14: a repository call that fails, fails with NotFoundError, ConflictError
\* or DatabaseError and nothing else; a call in which the store threw fails
\* with DatabaseError; NotFoundError comes out of update, delete and
\* softDelete only and ConflictError out of create and update only, and when
\* the store did not throw they come out whenever the table calls for them;
\* findById, findByEmail and findMany fail with DatabaseError only.
C14_FailuresAreOfThreeKinds ==
  \A p \in Procs :
    calls[p].pc = "done" =>
      /\ calls[p].result.kind \in {"ok", "NotFoundError", "ConflictError", "DatabaseError"}
      /\ calls[p].fault # Null => calls[p].result = DatabaseError
      /\ calls[p].result = NotFoundError => calls[p].op \in {"update", "delete", "softDelete"}
      /\ calls[p].result = ConflictError => calls[p].op \in {"create", "update"}
      /\ calls[p].op \in {"findById", "findByEmail", "findMany"}
           => calls[p].result.kind \in {"ok", "DatabaseError"}
      /\ (calls[p].fault = Null /\ calls[p].op # "findMany")
           => calls[p].result.kind = StoreVerdict(calls[p], pre[p].db)

\* The store threw under the findById of an update, and the update failed
\* with DatabaseError.
C14_Witness ==
  \E p \in Procs :
    /\ Done(p, "update")
    /\ calls[p].fault = NotConnected
    /\ calls[p].existingUser = Null
    /\ calls[p].result = DatabaseError

\* ---- findMany, as its callers expect it ------------------------------------
\* The non-deleted rows of table d that match q.
Matching(d, q) ==
  {r \in Rows(d) :
     /\ r.deleted_at = Null
     /\ \/ q = ""
        \/ contains(r.first_name, q) \/ contains(r.last_name, q) \/ contains(r.email, q)}

\* users holds the rows at positions (page-1)*limit+1 .. page*limit of the
\* rows of table d matching q, laid out in the requested order.
IsRequestedSlice(users, d, params) ==
  LET page == Param(params, "page", 1)
      limit == Param(params, "limit", 10)
      first == (page - 1) * limit + 1
      last == page * limit
  IN \E s \in Ordered(Matching(d, Param(params, "q", "")),
                      Param(params, "sort_by", "created_at"),
                      Param(params, "sort_order", "desc")) :
       /\ Len(users) = Cardinality({k \in first..last : k <= Len(s)})
       /\ \A i \in 1..Len(users) : users[i] = s[first - 1 + i]

\* ---- C15 ---------------------------------------------------------------
\* C15: findMany returns no soft-deleted row; it returns at most limit rows,
\* those at positions (page-1)*limit+1 .. page*limit of the non-deleted rows
\* matching q in the requested sort order; and its total is the number of
\* all non-deleted rows matching q.
C15_FindManyReturnsRequestedSlice ==
  \A p \in Procs :
    Done(p, "findMany") =>
      LET params == calls[p].data
          res == calls[p].result
      IN /\ res.kind = "ok"
         /\ \A i \in 1..Len(res.value.users) : res.value.users[i].deleted_at = Null
         /\ Len(res.value.users) <= Param(params, "limit", 10)
         /\ IsRequestedSlice(res.value.users, pre[p].db, params)
         /\ res.value.total = Cardinality(Matching(pre[p].db, Param(params, "q", "")))

\* The second page of one row each came back with the second of two rows.
C15_Witness ==
  \E p \in Procs :
    /\ Done(p, "findMany")
    /\ Param(calls[p].data, "page", 1) = 2
    /\ Param(calls[p].data, "limit", 10) = 1
    /\ Len(calls[p].result.value.users) = 1
    /\ calls[p].result.value.total = 2

\* A q in upper case found the row whose last name has it in mixed case and
\* left out the other row and a soft-deleted one.
C15_FilterWitness ==
  \E p \in Procs :
    /\ Done(p, "findMany")
    /\ Param(calls[p].data, "q", "") = "LEE"
    /\ calls[p].result.value.total = 1
    /\ \E i \in Ids : IsSoftDeleted(pre[p].db, i)

\* ---- C16 ---------------------------------------------------------------
\* C16: when findMany overlaps with create, delete or softDelete calls, the
\* table went, while the findMany ran, through a state in which the
\* returned users are the requested slice and the returned total is the
\* number of matching rows.
C16_PageAndTotalFromOneSnapshot ==
  \A p \in Procs :
    (Done(p, "findMany") /\ calls[p].result.kind = "ok") =>
      \E d \in calls[p].seen :
        /\ IsRequestedSlice(calls[p].result.value.users, d, calls[p].data)
        /\ calls[p].result.value.total
             = Cardinality(Matching(d, Param(calls[p].data, "q", "")))

\* ---- C17 ---------------------------------------------------------------
\* C17: from its start to its end a findMany leaves the cache as it was;
\* no part of its answer is taken from the cache: the answer is the
\* requested slice and count of the table whatever the cache holds.
C17_FindManyBypassesCache ==
  \A p \in Procs :
    calls[p].op = "findMany" =>
      /\ cache = pre[p].cache
      /\ ~calls[p].hit
      /\ calls[p].pc = "done" =>
           /\ IsRequestedSlice(calls[p].result.value.users, db, calls[p].data)
           /\ calls[p].result.value.total
                = Cardinality(Matching(db, Param(calls[p].data, "q", "")))

\* A findMany has returned a row that the cache does not hold, while the
\* cache holds entries of its own.
C17_Witness ==
  \E p \in Procs :
    /\ Done(p, "findMany")
    /\ \E i \in 1..Len(calls[p].result.value.users) :
         cache[IdKey(calls[p].result.value.users[i].id)] = Null
    /\ \E k \in Keys : cache[k] # Null

\* ---- C18 ---------------------------------------------------------------
\* C18: for every page >= 1, limit >= 1 (1 and 10 when left out) and total
\* >= 0 that the repository reports, getUsers returns that page, limit and
\* total, a total_pages that is the least number of pages of limit rows
\* that hold total rows, has_next = (page < total_pages) and has_prev =
\* (page > 1).
C18_PaginationMetadata ==
  \A p \in Procs :
    (Done(p, "getUsers") /\ calls[p].answer.kind = "ok") =>
      LET params == calls[p].data
          page == IF "page" \in DOMAIN params THEN params.page ELSE 1
          limit == IF "limit" \in DOMAIN params THEN params.limit ELSE 10
          total == calls[p].answer.value.total
          pg == calls[p].result.value.pagination
      IN /\ calls[p].result.kind = "ok"
         /\ pg.page = page /\ pg.limit = limit /\ pg.total = total
         /\ pg.total_pages >= 0
         /\ pg.total_pages * limit >= total
         /\ (pg.total_pages - 1) * limit < total
         /\ pg.has_next = (page < pg.total_pages)
         /\ pg.has_prev = (page > 1)

\* Twelve rows, page 2 of 5 rows each: three pages, one before and one after.
C18_Witness ==
  \E p \in Procs :
    /\ Done(p, "getUsers")
    /\ calls[p].data = [page |-> 2, limit |-> 5]
    /\ calls[p].answer.kind = "ok"
    /\ calls[p].answer.value.total = 12
    /\ calls[p].result.value.pagination.total_pages = 3
    /\ calls[p].result.value.pagination.has_next
    /\ calls[p].result.value.pagination.has_prev

\* Neither page nor limit was given and the eleven rows take two pages of ten.
C18_DefaultsWitness ==
  \E p \in Procs :
    /\ Done(p, "getUsers")
    /\ DOMAIN calls[p].data = {}
    /\ calls[p].answer.kind = "ok"
    /\ calls[p].answer.value.total = 11
    /\ calls[p].result.value.pagination.total_pages = 2
    /\ calls[p].result.value.pagination.has_next

\* ---- C19 ---------------------------------------------------------------
\* out is the row minus its password and deleted_at, every other field as
\* the repository gave it.
IsStripped(out, row) ==
  /\ "password" \notin DOMAIN out
  /\ "deleted_at" \notin DOMAIN out
  /\ DOMAIN out = DOMAIN row \ {"password", "deleted_at"}
  /\ \A f \in DOMAIN out : out[f] = row[f]

ServiceMethods ==
  {"createUser", "getUserById", "getUserByEmail", "getUsers", "searchUsers",
   "updateUser", "deleteUser", "activateUser", "deactivateUser"}

\* C19: whatever row or rows the repository returned, the value a service
\* method returns holds no password and no deleted_at, and holds every other
\* field of each row unchanged.
C19_NoPasswordNoDeletedAt ==
  \A p \in Procs :
    (/\ calls[p].pc = "done"
     /\ calls[p].op \in ServiceMethods
     /\ calls[p].result.kind = "ok") =>
      LET given == calls[p].answer.value
          out == calls[p].result.value
      IN CASE calls[p].op \in {"getUsers", "searchUsers"} ->
                /\ Len(out.data) = Len(given.users)
                /\ \A i \in 1..Len(out.data) : IsStripped(out.data[i], given.users[i])
           [] calls[p].op = "deleteUser" -> out = Null
           [] OTHER -> IF given = Null
                         THEN "password" \notin DOMAIN out /\ "deleted_at" \notin DOMAIN out
                         ELSE IsStripped(out, given)

\* The repository handed over a row with deleted_at set and getUserById
\* returned it without that field and without the password.
C19_Witness ==
  \E p \in Procs :
    /\ Done(p, "getUserById")
    /\ calls[p].answer.kind = "ok"
    /\ calls[p].answer.value # Null
    /\ calls[p].answer.value.deleted_at # Null
    /\ calls[p].result.kind = "ok"
    /\ calls[p].result.value.email = calls[p].answer.value.email

C20_Witness ==
  \E p \in Procs :
    /\ Done(p, "getUserById")
    /\ calls[p].answer = Ok(Null)
    /\ calls[p].result = NotFoundError

C21_DeleteUserDispatch ==
  \A p \in Procs :
    (calls[p].op = "deleteUser" /\ calls[p].pc \in {"await", "done"}) =>
      LET args == calls[p].data
          hard == "soft" \in DOMAIN args /\ args.soft = FALSE
      IN /\ calls[p].invoked.op = (IF hard THEN "delete" ELSE "softDelete")
         /\ calls[p].invoked.args = [id |-> args.id]
         /\ calls[p].pc = "done" =>
              IF calls[p].answer.kind = "ok" THEN calls[p].result = Ok(Null)
              ELSE calls[p].result = calls[p].answer

\* deleteUser(id, false) called delete, which threw NotFoundError, and so
\* did deleteUser.
C21_Witness ==
  \E p \in Procs :
    /\ Done(p, "deleteUser")
    /\ "soft" \in DOMAIN calls[p].data /\ calls[p].data.soft = FALSE
    /\ calls[p].invoked.op = "delete"
    /\ calls[p].answer = NotFoundError
    /\ calls[p].result = NotFoundError

\* deleteUser(id) with the flag left out called softDelete.
C21_DefaultWitness ==
  \E p \in Procs :
    /\ Done(p, "deleteUser")
    /\ DOMAIN calls[p].data = {"id"}
    /\ calls[p].invoked.op = "softDelete"
    /\ calls[p].result = Ok(Null)


\* ---- C22 ---------------------------------------------------------------
\* The two cache entries a populate writes for a row.
Entry(row) == [value |-> JSONstringify(row), ttl |-> CACHE_TTL]

Populated(c, row) ==
  /\ c[IdKey(row.id)] = Entry(row)
  /\ c[EmailKey(row.email)] = Entry(row)

\* The state a first activateUser(id) / deactivateUser(id) leaves, and which
\* of the two it was: the row is live, its is_active is the value the call
\* writes, and both cache keys hold the row.
AfterFirstToggle(p) ==
  /\ Done(p, "update")
  /\ DOMAIN calls[p].data = {"is_active"}
  /\ IsLive(pre[p].db, calls[p].id)
  /\ pre[p].db[calls[p].id].is_active = calls[p].data.is_active
  /\ Populated(pre[p].cache, pre[p].db[calls[p].id])

\* C22: activateUser(id) and deactivateUser(id) are update(id, {is_active:
\* true}) and update(id, {is_active: false}), and a second call on an
\* existing user leaves the stored row and its cache entries in the state
\* the first call left.
C22_SecondToggleChangesNothing ==
  \A p \in Procs :
    AfterFirstToggle(p) =>
      /\ calls[p].result.kind = "ok"
      /\ db = pre[p].db
      /\ cache = pre[p].cache

\* C22 as amended: the second call leaves every column of the row but
\* updated_at as the first call left it (the write re-stamps updated_at),
\* leaves all other rows alone, and leaves both cache keys holding the row
\* as it now is.
C22_SecondToggleRestampsOnly ==
  \A p \in Procs :
    AfterFirstToggle(p) =>
      LET id == calls[p].id
      IN /\ calls[p].result.kind = "ok"
         /\ IsLive(db, id)
         /\ \A f \in DOMAIN db[id] \ {"updated_at"} : db[id][f] = pre[p].db[id][f]
         /\ \A i \in Ids \ {id} : db[i] = pre[p].db[i]
         /\ Populated(cache, db[id])
         /\ \A k \in Keys \ {IdKey(id), EmailKey(db[id].email)} : cache[k] = pre[p].cache[k]

\* A second toggle has been written at a later time than the first.
C22_Witness ==
  \E p \in Procs :
    /\ AfterFirstToggle(p)
    /\ calls[p].result.kind = "ok"
    /\ db[calls[p].id].updated_at # pre[p].db[calls[p].id].updated_at

\* The two methods are calls of update with the one-field patch.
C22_SugarOverUpdate ==
  \A p \in Procs :
    (calls[p].op \in {"activateUser", "deactivateUser"} /\ calls[p].pc \in {"await", "done"}) =>
      /\ calls[p].invoked =
           [op |-> "update",
            args |-> [id |-> calls[p].data.id,
                      data |-> [is_active |-> (calls[p].op = "activateUser")]]]
      /\ calls[p].pc = "done" =>
           IF calls[p].answer.kind = "ok"
             THEN calls[p].result = Ok(mapUserToResponse(calls[p].answer.value))
             ELSE calls[p].result = calls[p].answer

C22_SugarWitness ==
  \E p \in Procs : Done(p, "deactivateUser") /\ calls[p].result.kind = "ok"


\* ---- C23 ---------------------------------------------------------------
\* What one step of an update call does, by the position the call is at.
UpdateStepInOrder(p) ==
  LET c == calls[p]
      n == calls'[p]
  IN CASE c.pc = "invalidate" ->
            \* both keys of the pre-update row are deleted; nothing is written
            /\ n.pc = "write"
            /\ db' = db
            /\ \A k \in Keys :
                 cache'[k] = IF isReady /\ k \in {IdKey(c.existingUser.id),
                                                  EmailKey(c.existingUser.email)}
                               THEN Null ELSE cache[k]
       [] c.pc = "write" ->
            \* the store write, or its failure; the cache is left alone
            /\ cache' = cache
            /\ \/ n.pc = "set" /\ n.user # Null /\ db' = [db EXCEPT ![c.id] = n.user]
               \/ n.pc = "done" /\ n.result.kind # "ok" /\ db' = db
       [] c.pc = "set" ->
            \* both keys of the refreshed row are written; the call returns
            /\ n.pc = "done" /\ n.result = Ok(c.user)
            /\ db' = db
            /\ \A k \in Keys :
                 cache'[k] = IF isReady /\ k \in {IdKey(c.user.id), EmailKey(c.user.email)}
                               THEN Entry(c.user) ELSE cache[k]
       [] c.pc = "done" -> n.pc = "idle"
       [] OTHER ->
            \* the lookups before the invalidation: no store write, no
            \* success, and no way past the invalidation
            /\ db' = db
            /\ n.pc \in {"find", "fill", "get", "invalidate", "done"}
            /\ n.pc = "done" => n.result.kind # "ok"
            /\ cache' # cache => c.pc = "fill" /\ cache' = setCacheUser(cache, c.found)

EmailMoveBesideReader(p, q) ==
  /\ ncalls = 2
  /\ Done(p, "update") /\ calls[p].result.kind = "ok"
  /\ "email" \in DOMAIN calls[p].data
  /\ IsLive(pre[p].db, calls[p].id)
  /\ pre[p].db[calls[p].id].email # calls[p].data.email
  /\ \/ Done(q, "findById") /\ calls[q].identifier = calls[p].id
     \/ Done(q, "findByEmail") /\ calls[q].identifier = pre[p].db[calls[p].id].email

\* C24: once an update(id, {email: new}) and the findById(id) /
\* findByEmail(old) calls that ran concurrently with it have all completed,
\* the cache holds no entry under the old email key and no entry under the
\* id key whose email is the old one.
C24_NoStaleEntryAfterEmailMove ==
  \A p, q \in Procs :
    EmailMoveBesideReader(p, q) =>
      LET id == calls[p].id
          old == pre[p].db[id].email
      IN /\ cache[EmailKey(old)] = Null
         /\ cache[IdKey(id)] # Null => JSONparse(cache[IdKey(id)].value).email # old


\* ---- C25 ---------------------------------------------------------------
\* The step of a call that consults the cache for a lookup: the first step
\* of a repository call, or the second lookup of an update.
ConsultsCache(p) ==
  \/ /\ calls[p].pc = "idle"
     /\ calls'[p].op \in {"create", "findById", "findByEmail", "update", "delete", "softDelete"}
  \/ calls[p].pc = "get" /\ calls'[p] # calls[p]

\* The key that lookup asks for.
LookupKey(p) ==
  LET n == calls'[p]
  IN CASE calls[p].pc = "get" -> getCacheKey(calls[p].identifier, calls[p].type)
       [] n.op = "create" -> getCacheKey(n.data.email, "email")
       [] n.op = "findByEmail" -> getCacheKey(n.identifier, "email")
       [] OTHER -> getCacheKey(n.id, "id")

\* The entry a lookup finds under its key: the cache is ready, the key holds
\* a payload and the payload parses.
EntryFound(key) ==
  isConnected /\ cache[key] # Null /\ "json" \in DOMAIN cache[key].value

\* C25: a findById / findByEmail that finds a cache entry under the
\* requested key returns that entry and issues no store query; the store
\* is queried only when the cache is not ready, the key is absent or the
\* read fails.
C25_HitSkipsStore ==
  [][\A p \in Procs :
       LET n == calls'[p]
       IN /\ (ConsultsCache(p) /\ EntryFound(LookupKey(p))) =>
               /\ n.hit /\ n.pc \notin {"find", "fill"}
               /\ n.op \in {"findById", "findByEmail"} =>
                    n.pc = "done" /\ n.result = Ok(cache[LookupKey(p)].value.json)
          /\ (ConsultsCache(p) /\ ~EntryFound(LookupKey(p))) => n.pc = "find"
          /\ (n.pc = "find" /\ calls[p].pc # "find") =>
               ConsultsCache(p) /\ ~EntryFound(LookupKey(p))
          /\ (n.pc = "fill" /\ calls[p].pc # "fill") => calls[p].pc = "find"]_vars

\* A findByEmail was answered by the cache entry under the email key.
C25_Witness ==
  \E p \in Procs :
    /\ Done(p, "findByEmail") /\ calls[p].hit
    /\ pre[p].cache[EmailKey(calls[p].identifier)] # Null
    /\ calls[p].result = Ok(JSONparse(pre[p].cache[EmailKey(calls[p].identifier)].value))

\* A findById went to the store past a payload that does not parse.
C25_UnreadableWitness ==
  \E p \in Procs :
    /\ calls[p].op = "findById" /\ calls[p].pc = "find"
    /\ cache[IdKey(calls[p].identifier)] # Null
    /\ cache[IdKey(calls[p].identifier)].value = Garbage


\* ---- C26 ---------------------------------------------------------------
\* The users the cache holds a representation of.
CachedUsers == {cache[k].value.json : k \in {j \in Keys : EntryFound(j)}}

\* A step that writes cache entries writes the two keys of one user, with
\* one payload and the TTL of 3600 seconds.
C26_PopulateWritesBothKeys ==
  [][(\E k \in Keys : cache'[k] # cache[k] /\ cache'[k] # Null /\ cache'[k].value # Garbage) =>
       \E p \in Procs :
         LET user == IF calls[p].pc = "fill" THEN calls[p].found ELSE calls[p].user
         IN /\ calls[p].pc \in {"fill", "set"}
            /\ cache' = [k \in Keys |->
                 IF k \in {IdKey(user.id), EmailKey(user.email)}
                   THEN [value |-> JSONstringify(user), ttl |-> 3600]
                   ELSE cache[k]]]_vars

\* C26: every population of the cache writes both keys of the user,
\* user:id:<id> and user:email:<email>, with the same serialized row and the
\* same TTL; while the cache is ready, the two keys of a user are both
\* present with equal values or both absent (here: once no call is in
\* flight).
C26_KeysOfAUserArePaired ==
  (isReady /\ \A p \in Procs : calls[p].pc \in {"idle", "done"}) =>
    \A u \in CachedUsers :
      /\ cache[IdKey(u.id)] = cache[EmailKey(u.email)]
      /\ cache[IdKey(u.id)].value.json = u


\* ---- C27 ---------------------------------------------------------------
\* Only soft-deleted rows of the table hold the email.
OwnedBySoftDeletedOnly(d, email) ==
  RowsWithEmail(d, email) # {} /\ \A r \in RowsWithEmail(d, email) : r.deleted_at # Null

\* C27: an email that only a soft-deleted row holds is free: a create with
\* it succeeds, and so does an update of another existing user to it.
C27_SoftDeletedEmailIsFree ==
  \A p \in Procs :
    /\ (Done(p, "create") /\ OwnedBySoftDeletedOnly(pre[p].db, calls[p].data.email))
         => calls[p].result.kind = "ok"
    /\ (/\ Done(p, "update") /\ "email" \in DOMAIN calls[p].data
        /\ IsLive(pre[p].db, calls[p].id)
        /\ OwnedBySoftDeletedOnly(pre[p].db, calls[p].data.email))
         => calls[p].result.kind = "ok"


\* ---- C28 ---------------------------------------------------------------
\* C28: of the delete(id) calls that run concurrently for one existing row,
\* exactly one returns successfully and every other one fails with
\* NotFoundError, never with DatabaseError.
C28_RacingDeletesLoseWithNotFound ==
  \A p, q \in Procs :
    (/\ p # q
     /\ Done(p, "delete") /\ Done(q, "delete")
     /\ calls[p].id = calls[q].id
     /\ IsLive(pre[p].db, calls[p].id) /\ IsLive(pre[q].db, calls[q].id))
    => \/ calls[p].result.kind = "ok" /\ calls[q].result = NotFoundError
       \/ calls[q].result.kind = "ok" /\ calls[p].result = NotFoundError


\* ---- C29 ---------------------------------------------------------------
\* The entry under the key is the stored row of a non-deleted user with
\* that id or that email.
HoldsCurrentRow(k) ==
  \E id \in Ids :
    /\ IsLive(db, id)
    /\ k \in {IdKey(id), EmailKey(db[id].email)}
    /\ cache[k] = Entry(db[id])

\* C29: when no two repository calls overlap and the cache is ready, then
\* after any sequence of create, findById, findByEmail, findMany, update,
\* delete and softDelete calls, failed ones included, every cache entry is
\* the current row of a non-deleted user with that id or email.
C29_CacheHoldsCurrentRowsOnly ==
  (\A p \in Procs : calls[p].pc \in {"idle", "done"}) =>
    \A k \in Keys : cache[k] # Null => HoldsCurrentRow(k)

\* A user that an earlier call had cached has been soft-deleted, and
\* nothing of it is left in the cache.
C29_Witness ==
  \E p \in Procs :
    /\ Done(p, "softDelete") /\ calls[p].result.kind = "ok"
    /\ pre[p].cache[IdKey(calls[p].id)] # Null
    /\ \A k \in Keys : cache[k] = Null
    /\ ncalls >= 2


\* ---- C30 ---------------------------------------------------------------
\* C30: once deleted_at of a row is set, no step of any repository call
\* changes a field of the row or removes it, also not a step of an update,
\* delete or softDelete that was racing with the soft delete.
C30_SoftDeletedRowIsFrozen ==
  [][\A id \in Ids : IsSoftDeleted(db, id) => db'[id] = db[id]]_vars

====
